---- MODULE Spec2Model ----
(***************************************************************************)
(* Model of mediapipe/model_maker/python/llm/llm_converter.py:             *)
(*   ConversionConfig.__init__, quantize_by_actions,                       *)
(*   combined_weight_bins_to_tflite and convert_checkpoint.                *)
(*                                                                         *)
(* Two specifications share the module:                                    *)
(*   Spec       - one run of convert_checkpoint (loader, quantize_by_      *)
(*                actions, writer, artifact generator);                    *)
(*   SpecConfig - one construction of a ConversionConfig over a small      *)
(*                file system.                                             *)
(*                                                                         *)
(* Conventions.  An Optional value is a sequence: << >> is None, <<x>> is  *)
(* the value x.  A path is the sequence of its components, << >> being the *)
(* empty string ''.  Every tensor-like value (weights, scales, zero        *)
(* points) is a sequence of sequences of integers; a scale is kept as the  *)
(* exact fraction <<numerator, denominator>>.                              *)
(***************************************************************************)
EXTENDS Integers, Sequences, FiniteSets, TLC

VARIABLES
  config,             \* the ConversionConfig convert_checkpoint runs with
  pc,                 \* position of convert_checkpoint
  actions,            \* local `actions` of convert_checkpoint
  quantized_tensors,  \* local `quantized_tensors` of convert_checkpoint
  calls,              \* primitive calls made by quantize_by_actions
  written,            \* argument received by writer.write_variables
  trace,              \* external stages / functions invoked so far, in order
  err,                \* the exception that ended the run, "" when none
  fs,                 \* file system: path -> "absent" | "file" | "dir"
  args,               \* arguments of ConversionConfig(...)
  self,               \* attributes set on the ConversionConfig object
  cpc,                \* position of ConversionConfig.__init__
  made                \* os.makedirs calls made by __init__, in order

vars == <<config, pc, actions, quantized_tensors, calls, written, trace, err,
          fs, args, self, cpc, made>>

runVars == <<config, pc, actions, quantized_tensors, calls, written, trace, err>>
cfgVars == <<fs, args, self, cpc, made>>

(***************************************************************************)
(* Bounds and input universes                                              *)
(***************************************************************************)
MaxActions == 2

None == << >>
Some(x) == <<x>>

Backends == {"xnnpack", "ml_drift", "unsupported"}

TargetNames == {"w", "v"}

\* the 2x2 source tensor of every action; its second row is a slice whose
\* elements are all equal
TensorValues == { << <<1, -2>>, <<4, 4>> >> }

\* axis 2 is out of bounds for a 2-D tensor
QuantizeAxes == {None, Some(0), Some(1), Some(2)}

QuantizeBits == {4, 8}

QuantizationAction ==
  [target_name : TargetNames, tensor_value : TensorValues,
   quantize_axis : QuantizeAxes, quantize_bits : QuantizeBits]

RECURSIVE SeqsUpTo(_, _)
SeqsUpTo(S, n) ==
  IF n = 0 THEN {<< >>}
  ELSE LET shorter == SeqsUpTo(S, n - 1)
       IN  shorter \cup {Append(s, x) : s \in {t \in shorter : Len(t) = n - 1}, x \in S}

ActionLists == SeqsUpTo(QuantizationAction, MaxActions)

(***************************************************************************)
(* Quantization primitives of quantization_util, after their documented    *)
(* contract: per-slice scale (and zero point) along one axis, rounding      *)
(* half away from zero, clamping to the representable range.  The contract  *)
(* leaves the asymmetric value formula open; round(x / scale) + zero_point  *)
(* is used.  quantize_by_actions only stores what these return.             *)
(***************************************************************************)
Abs(x) == IF x < 0 THEN -x ELSE x

RECURSIVE MaxOf(_)
MaxOf(s) ==
  IF Len(s) = 1 THEN s[1]
  ELSE LET m == MaxOf(Tail(s)) IN IF s[1] > m THEN s[1] ELSE m

RECURSIVE MinOf(_)
MinOf(s) ==
  IF Len(s) = 1 THEN s[1]
  ELSE LET m == MinOf(Tail(s)) IN IF s[1] < m THEN s[1] ELSE m

Clamp(x, lo, hi) == IF x < lo THEN lo ELSE IF x > hi THEN hi ELSE x

\* round(n / d), d > 0, halves away from zero
RoundDiv(n, d) ==
  IF n >= 0 THEN (2 * n + d) \div (2 * d) ELSE -((2 * (-n) + d) \div (2 * d))

\* the axis-th index i of a 2-D tensor selects one slice (axis counted from 0)
Slice(var, axis, i) ==
  IF axis = 0 THEN var[i] ELSE [r \in 1..Len(var) |-> var[r][i]]

NumSlices(var, axis) == IF axis = 0 THEN Len(var) ELSE Len(var[1])

SliceOf(axis, r, c) == IF axis = 0 THEN r ELSE c

ValidQuantizeArgs(var, axis, bits) ==
  /\ axis \in 0..1
  /\ bits \in 2..8

SymScale(slice, bits) ==
  LET amax == MaxOf([k \in 1..Len(slice) |-> Abs(slice[k])])
  IN  IF amax = 0 THEN <<1, 1000000>> ELSE <<amax, 2^(bits - 1) - 1>>

SymQuant(x, scale, bits) ==
  Clamp(RoundDiv(x * scale[2], scale[1]), -(2^(bits - 1) - 1), 2^(bits - 1) - 1)

AsymScale(slice, bits) ==
  LET range == MaxOf(slice) - MinOf(slice)
  IN  IF range = 0 THEN <<1, 1000000>> ELSE <<range, 2^bits - 1>>

AsymZeroPoint(slice, bits) ==
  LET scale == AsymScale(slice, bits)
  IN  Clamp(RoundDiv(-MinOf(slice) * scale[2], scale[1]), 0, 2^bits - 1)

AsymQuant(x, slice, bits) ==
  LET scale == AsymScale(slice, bits)
      zp    == AsymZeroPoint(slice, bits)
  IN  IF MaxOf(slice) = MinOf(slice) THEN zp
      ELSE Clamp(RoundDiv(x * scale[2], scale[1]) + zp, 0, 2^bits - 1)

\* quantize_tensor(var, axis, sym, number_bits): <<value, scale>> when sym,
\* <<value, scale, zero_point>> otherwise.  Requires ValidQuantizeArgs.
quantize_tensor(var, axis, sym, number_bits) ==
  LET n == NumSlices(var, axis)
      scale == [i \in 1..n |->
                 IF sym THEN SymScale(Slice(var, axis, i), number_bits)
                        ELSE AsymScale(Slice(var, axis, i), number_bits)]
      zp == [i \in 1..n |-> <<AsymZeroPoint(Slice(var, axis, i), number_bits)>>]
      value == [r \in 1..Len(var) |-> [c \in 1..Len(var[r]) |->
                 LET i == SliceOf(axis, r, c)
                 IN  IF sym THEN SymQuant(var[r][c], scale[i], number_bits)
                     ELSE AsymQuant(var[r][c], Slice(var, axis, i), number_bits)]]
  IN  IF sym THEN <<value, scale>> ELSE <<value, scale, zp>>

\* update_to_uint4(value, scale, zp): offset 8 on values and zero points
update_to_uint4(value, scale, zp) ==
  << [r \in 1..Len(value) |-> [c \in 1..Len(value[r]) |-> value[r][c] + 8]],
     scale,
     [i \in 1..Len(zp) |-> <<zp[i][1] + 8>>] >>

(***************************************************************************)
(* quantize_by_actions                                                     *)
(***************************************************************************)
\* Python truth value of an Optional[int]: None and 0 are false
Truthy(opt) == opt # None /\ opt[1] # 0

\* `if action.quantize_axis:`
IsQuantized(action) == Truthy(action.quantize_axis)

\* `pack = action.quantize_bits == 4`
NeedsPacking(action) == action.quantize_bits = 4

\* faulty variant: the backend test is dropped
NeedsUint4_AnyBackend(backend, action) == action.quantize_bits = 4

\* faulty variant: every backend but ml_drift is taken to need unsigned storage
NeedsUint4_NotMlDrift(backend, action) ==
  backend # "ml_drift" /\ action.quantize_bits = 4

\* `if backend == 'xnnpack' and (action.quantize_bits == 4):`
NeedsUint4(backend, action) == backend = "xnnpack" /\ action.quantize_bits = 4

ScaleKey(target_name) == target_name \o "_quantized_scale"

ZpKey(target_name) == target_name \o "_quantized_zp"

\* output_tensors[key] = value
Put(output_tensors, key, value) ==
  [k \in DOMAIN output_tensors \cup {key} |->
     IF k = key THEN value ELSE output_tensors[k]]

\* faulty variant: the pack flag is derived from the bit width here too
PassThroughEntry_Packed(action) == <<action.tensor_value, action.quantize_bits = 4>>

\* the entry stored for an action that is not quantized
PassThroughEntry(action) == <<action.tensor_value, FALSE>>

Call(fn, idx, ret) == [fn |-> fn, idx |-> idx, ret |-> ret]

\* the loop's state: the mapping built so far, the primitive calls made so
\* far, and whether an exception has left the loop
Stored(acc, output_tensors, newCalls) ==
  [output_tensors |-> output_tensors, calls |-> acc.calls \o newCalls, raised |-> FALSE]

Raised(acc) ==
  [output_tensors |-> acc.output_tensors, calls |-> acc.calls, raised |-> TRUE]

\* the symmetric branch's two stores; q is quantize_tensor's <<target_var, scale>>
StoreSymmetric(acc, action, idx, q) ==
  Stored(acc,
         Put(Put(acc.output_tensors, action.target_name, <<q[1], NeedsPacking(action)>>),
             ScaleKey(action.target_name), <<q[2], FALSE>>),
         <<Call("quantize_tensor", idx, q)>>)

\* the asymmetric branch's three stores of <<target_var, scale, zp>>
StoreTriple(acc, action, t, newCalls) ==
  Stored(acc,
         Put(Put(Put(acc.output_tensors, action.target_name, <<t[1], NeedsPacking(action)>>),
                 ScaleKey(action.target_name), <<t[2], FALSE>>),
             ZpKey(action.target_name), <<t[3], FALSE>>),
         newCalls)

\* the triple update_to_uint4 returns for quantize_tensor's triple q
Adapted(q) == update_to_uint4(q[1], q[2], q[3])

\* the asymmetric branch; q is quantize_tensor's <<target_var, scale, zp>>
StoreAsymmetric(acc, action, idx, backend, q) ==
  IF NeedsUint4(backend, action)
  THEN StoreTriple(acc, action, Adapted(q),
                   <<Call("quantize_tensor", idx, q),
                     Call("update_to_uint4", idx, Adapted(q))>>)
  ELSE StoreTriple(acc, action, q, <<Call("quantize_tensor", idx, q)>>)

\* the else branch: the tensor is stored as it is
StorePassThrough(acc, action) ==
  Stored(acc, Put(acc.output_tensors, action.target_name, PassThroughEntry(action)),
         << >>)

\* One iteration of `for action in actions:`; idx is the action's position.
\* The loop is left by an exception when quantize_tensor rejects its arguments.
QuantizeOne(acc, action, idx, backend, is_symmetric) ==
  IF ~IsQuantized(action) THEN StorePassThrough(acc, action)
  ELSE IF ~ValidQuantizeArgs(action.tensor_value, action.quantize_axis[1],
                             action.quantize_bits)
  THEN Raised(acc)
  ELSE IF is_symmetric
  THEN StoreSymmetric(acc, action, idx,
         quantize_tensor(action.tensor_value, action.quantize_axis[1],
                         is_symmetric, action.quantize_bits))
  ELSE StoreAsymmetric(acc, action, idx, backend,
         quantize_tensor(action.tensor_value, action.quantize_axis[1],
                         is_symmetric, action.quantize_bits))

RECURSIVE QuantizeLoop(_, _, _, _, _)
QuantizeLoop(acc, acts, idx, backend, is_symmetric) ==
  IF idx > Len(acts) \/ acc.raised THEN acc
  ELSE QuantizeLoop(QuantizeOne(acc, acts[idx], idx, backend, is_symmetric),
                    acts, idx + 1, backend, is_symmetric)

EmptyDict == [k \in {} |-> << >>]

\* quantize_by_actions(actions, backend, is_symmetric): the returned mapping
\* (output_tensors), the primitive calls it made, and whether it raised.
quantize_by_actions(acts, backend, is_symmetric) ==
  QuantizeLoop([output_tensors |-> EmptyDict, calls |-> << >>, raised |-> FALSE],
               acts, 1, backend, is_symmetric)

(***************************************************************************)
(* combined_weight_bins_to_tflite and convert_checkpoint                   *)
(***************************************************************************)
\* The fields of ConversionConfig that convert_checkpoint branches on; the
\* others are passed through to the external collaborators unread.
RunConfigs ==
  [backend : Backends, is_symmetric : BOOLEAN, combine_file_only : BOOLEAN]

\* faulty variant: the final else falls through to the ml_drift generator
GeneratorFor_DefaultMlDrift(backend) ==
  IF backend = "xnnpack" THEN Some("GenerateXnnpackTfLite")
  ELSE Some("GenerateMlDriftTfLite")

\* the `if backend == 'xnnpack' / elif backend == 'ml_drift' / else` dispatch:
\* the generator entry point called, None when the backend is rejected
GeneratorFor(backend) ==
  IF backend = "xnnpack" THEN Some("GenerateXnnpackTfLite")
  ELSE IF backend = "ml_drift" THEN Some("GenerateMlDriftTfLite")
  ELSE None

\* faulty variant: the combine_file_only flag is ignored
FullPath_Always(cfg) == TRUE

\* `if not config.combine_file_only:`
FullPath(cfg) == ~cfg.combine_file_only

\* faulty variant: the writer is handed a fresh, empty mapping
WriterArgument_Empty(qt) == [k \in {} |-> << >>]

\* the argument of `writer.write_variables(quantized_tensors)`
WriterArgument(qt) == qt

Raise(e) == pc' = "raised" /\ err' = e

\* converter_factory.create_ckpt_loader(...) raises
CreateLoaderRaises ==
  /\ pc = "start"
  /\ FullPath(config)
  /\ Raise("create_ckpt_loader")
  /\ UNCHANGED <<config, actions, quantized_tensors, calls, written, trace>>
  /\ UNCHANGED cfgVars

\* loader.load_to_actions() raises
LoadRaises ==
  /\ pc = "start"
  /\ FullPath(config)
  /\ trace' = Append(trace, "load_to_actions")
  /\ Raise("load_to_actions")
  /\ UNCHANGED <<config, actions, quantized_tensors, calls, written>>
  /\ UNCHANGED cfgVars

\* actions = loader.load_to_actions()
LoadReturns ==
  /\ pc = "start"
  /\ FullPath(config)
  /\ \E acts \in ActionLists : actions' = acts
  /\ trace' = Append(trace, "load_to_actions")
  /\ pc' = "loaded"
  /\ UNCHANGED <<config, quantized_tensors, calls, written, err>>
  /\ UNCHANGED cfgVars

\* quantized_tensors = quantize_by_actions(actions, backend, is_symmetric)
Quantize ==
  /\ pc = "loaded"
  /\ trace' = Append(trace, "quantize_by_actions")
  /\ LET r == quantize_by_actions(actions, config.backend, config.is_symmetric)
     IN  /\ calls' = r.calls
         /\ IF r.raised
            THEN Raise("quantize_tensor") /\ UNCHANGED quantized_tensors
            ELSE /\ quantized_tensors' = r.output_tensors
                 /\ pc' = "quantized"
                 /\ UNCHANGED err
  /\ UNCHANGED <<config, actions, written>>
  /\ UNCHANGED cfgVars

\* converter_factory.create_writer(...) raises
CreateWriterRaises ==
  /\ pc = "quantized"
  /\ Raise("create_writer")
  /\ UNCHANGED <<config, actions, quantized_tensors, calls, written, trace>>
  /\ UNCHANGED cfgVars

\* writer.write_variables(quantized_tensors) raises
WriteRaises ==
  /\ pc = "quantized"
  /\ written' = Some(WriterArgument(quantized_tensors))
  /\ trace' = Append(trace, "write_variables")
  /\ Raise("write_variables")
  /\ UNCHANGED <<config, actions, quantized_tensors, calls>>
  /\ UNCHANGED cfgVars

\* writer.write_variables(quantized_tensors)
WriteReturns ==
  /\ pc = "quantized"
  /\ written' = Some(WriterArgument(quantized_tensors))
  /\ trace' = Append(trace, "write_variables")
  /\ pc' = "written"
  /\ UNCHANGED <<config, actions, quantized_tensors, calls, err>>
  /\ UNCHANGED cfgVars

\* convert_checkpoint has reached the call of combined_weight_bins_to_tflite
AtCombine == pc = "written" \/ (pc = "start" /\ ~FullPath(config))

\* combined_weight_bins_to_tflite: `raise ValueError('Unsupported backend: ...')`
CombineRejectsBackend ==
  /\ AtCombine
  /\ GeneratorFor(config.backend) = None
  /\ Raise("Unsupported backend")
  /\ UNCHANGED <<config, actions, quantized_tensors, calls, written, trace>>
  /\ UNCHANGED cfgVars

\* combined_weight_bins_to_tflite: the generator entry point raises
GeneratorRaises ==
  /\ AtCombine
  /\ GeneratorFor(config.backend) # None
  /\ trace' = Append(trace, GeneratorFor(config.backend)[1])
  /\ Raise(GeneratorFor(config.backend)[1])
  /\ UNCHANGED <<config, actions, quantized_tensors, calls, written>>
  /\ UNCHANGED cfgVars

\* combined_weight_bins_to_tflite: the generator entry point returns
GeneratorReturns ==
  /\ AtCombine
  /\ GeneratorFor(config.backend) # None
  /\ trace' = Append(trace, GeneratorFor(config.backend)[1])
  /\ pc' = "done"
  /\ UNCHANGED <<config, actions, quantized_tensors, calls, written, err>>
  /\ UNCHANGED cfgVars

(***************************************************************************)
(* File system seen by ConversionConfig.__init__ (os.path, os.makedirs)    *)
(***************************************************************************)
MaxDepth == 2

MaxEntries == 2

Components == {"a", "b"}

\* paths of at most n components; << >> is ''
PathsUpTo(n) == SeqsUpTo(Components, n)

\* the paths the file system can hold an entry at
FsPaths == PathsUpTo(MaxDepth) \ {<< >>}

\* os.path.dirname
dirname(p) == IF p = << >> THEN << >> ELSE SubSeq(p, 1, Len(p) - 1)

\* os.path.join(p, name)
join(p, name) == Append(p, name)

\* os.path.isfile / os.path.isdir / os.path.exists ('' names nothing)
isfile(f, p) == p \in DOMAIN f /\ f[p] = "file"

isdir(f, p) == p \in DOMAIN f /\ f[p] = "dir"

exists(f, p) == isfile(f, p) \/ isdir(f, p)

\* os.mkdir succeeds when p names nothing yet and its parent is a directory
\* (the working directory for a single component)
CanMkdir(f, p) ==
  /\ p \in DOMAIN f
  /\ f[p] = "absent"
  /\ dirname(p) = << >> \/ isdir(f, dirname(p))

\* os.makedirs(p, exist_ok=True): the file system afterwards and whether an
\* OSError was raised
RECURSIVE makedirs(_, _)
makedirs(f, p) ==
  LET head == dirname(p)
      up == IF head # << >> /\ ~exists(f, head)
            THEN makedirs(f, head)
            ELSE [fs |-> f, raised |-> FALSE]
  IN  IF p = << >> THEN [fs |-> f, raised |-> TRUE]
      ELSE IF up.raised THEN up
      ELSE IF CanMkdir(up.fs, p) THEN [fs |-> [up.fs EXCEPT ![p] = "dir"], raised |-> FALSE]
      ELSE [fs |-> up.fs, raised |-> ~isdir(up.fs, p)]

\* an entry exists only inside a directory
WellFormed(f) ==
  \A p \in DOMAIN f : f[p] # "absent" /\ dirname(p) # << >> => f[dirname(p)] = "dir"

\* the file system holding exactly the entries of kind (path -> "file" | "dir")
FileSystemOf(kind) ==
  [p \in FsPaths |-> IF p \in DOMAIN kind THEN kind[p] ELSE "absent"]

\* the file systems __init__ may find: at most MaxEntries entries
InitialFileSystems ==
  {f \in UNION {{FileSystemOf(kind) : kind \in [E -> {"file", "dir"}]} :
                  E \in {E \in SUBSET FsPaths : Cardinality(E) <= MaxEntries}} :
     WellFormed(f)}

(***************************************************************************)
(* ConversionConfig.__init__                                               *)
(***************************************************************************)
\* the path arguments of the constructor; output_tflite_file is Optional
ConfigArgs ==
  [output_dir : PathsUpTo(MaxDepth),
   output_tflite_file : {None} \cup {Some(p) : p \in PathsUpTo(MaxDepth + 1)}]

\* Python truth value of an Optional[str]: None and '' are false
TruthyPath(opt) == opt # None /\ opt[1] # << >>

\* faulty variant: anything that exists at output_dir is rejected
RejectsOutputDir_Exists(f, output_dir) == exists(f, output_dir)

\* `if os.path.isfile(output_dir): raise ValueError(...)`
RejectsOutputDir(f, output_dir) == isfile(f, output_dir)

\* `else: self.output_tflite_file = os.path.join(output_dir, 'model.tflite')`
DefaultTfliteFile(output_dir) == join(output_dir, "model.tflite")

\* lines 55-60: the output directory
InitOutputDir(f, a) ==
  IF RejectsOutputDir(f, a.output_dir)
  THEN [fs |-> f, made |-> << >>, outcome |-> "ValueError"]
  ELSE IF ~isdir(f, a.output_dir)
  THEN LET m == makedirs(f, a.output_dir)
       IN  [fs |-> m.fs, made |-> <<a.output_dir>>,
            outcome |-> IF m.raised THEN "OSError" ELSE "ok"]
  ELSE [fs |-> f, made |-> << >>, outcome |-> "ok"]

\* lines 67-74: the output file and its parent directory
InitTfliteFile(f, a) ==
  IF TruthyPath(a.output_tflite_file)
  THEN LET parent_dir == dirname(a.output_tflite_file[1])
       IN  IF ~isdir(f, parent_dir)
           THEN LET m == makedirs(f, parent_dir)
                IN  [fs |-> m.fs, made |-> <<parent_dir>>,
                     outcome |-> IF m.raised THEN "OSError" ELSE "ok",
                     output_tflite_file |-> a.output_tflite_file[1]]
           ELSE [fs |-> f, made |-> << >>, outcome |-> "ok",
                 output_tflite_file |-> a.output_tflite_file[1]]
  ELSE [fs |-> f, made |-> << >>, outcome |-> "ok",
        output_tflite_file |-> DefaultTfliteFile(a.output_dir)]

\* ConversionConfig.__init__: the file system afterwards, the makedirs calls,
\* how it ended, and the object's path attributes when it returned
ConversionConfig_init(f, a) ==
  LET d == InitOutputDir(f, a)
      t == InitTfliteFile(d.fs, a)
  IN  IF d.outcome # "ok"
      THEN [fs |-> d.fs, made |-> d.made, outcome |-> d.outcome, self |-> None]
      ELSE [fs |-> t.fs, made |-> d.made \o t.made, outcome |-> t.outcome,
            self |-> IF t.outcome = "ok"
                     THEN Some([output_dir |-> a.output_dir,
                                output_tflite_file |-> t.output_tflite_file])
                     ELSE None]

Construct ==
  /\ cpc = "init"
  /\ LET r == ConversionConfig_init(fs, args)
     IN  /\ fs' = r.fs
         /\ made' = r.made
         /\ self' = r.self
         /\ cpc' = r.outcome
  /\ UNCHANGED args
  /\ UNCHANGED runVars

(***************************************************************************)
(* Specifications                                                          *)
(***************************************************************************)
NoFileSystem == [p \in FsPaths |-> "absent"]

ConfigIdle ==
  /\ fs = NoFileSystem
  /\ args = [output_dir |-> << >>, output_tflite_file |-> None]
  /\ self = None
  /\ cpc = "idle"
  /\ made = << >>

RunIdle ==
  /\ config = [backend |-> "xnnpack", is_symmetric |-> TRUE, combine_file_only |-> FALSE]
  /\ pc = "idle"
  /\ actions = << >>
  /\ quantized_tensors = EmptyDict
  /\ calls = << >>
  /\ written = None
  /\ trace = << >>
  /\ err = ""

\* convert_checkpoint(config) is entered
Init ==
  /\ config \in RunConfigs
  /\ pc = "start"
  /\ actions = << >>
  /\ quantized_tensors = EmptyDict
  /\ calls = << >>
  /\ written = None
  /\ trace = << >>
  /\ err = ""
  /\ ConfigIdle

Next ==
  \/ CreateLoaderRaises
  \/ LoadRaises
  \/ LoadReturns
  \/ Quantize
  \/ CreateWriterRaises
  \/ WriteRaises
  \/ WriteReturns
  \/ CombineRejectsBackend
  \/ GeneratorRaises
  \/ GeneratorReturns

Spec == Init /\ [][Next]_vars

\* ConversionConfig(..., output_dir, ..., output_tflite_file) is entered
InitConfig ==
  /\ fs \in InitialFileSystems
  /\ args \in ConfigArgs
  /\ self = None
  /\ cpc = "init"
  /\ made = << >>
  /\ RunIdle

NextConfig == Construct

SpecConfig == InitConfig /\ [][NextConfig]_vars

(***************************************************************************)
(* Vocabulary of the properties                                            *)
(***************************************************************************)
InTrace(x) == \E k \in 1..Len(trace) : trace[k] = x

Occurrences(x) == Cardinality({k \in 1..Len(trace) : trace[k] = x})

IsPrefix(s, t) == Len(s) <= Len(t) /\ SubSeq(t, 1, Len(s)) = s

QuantizeInvoked == InTrace("quantize_by_actions")

QuantizeRaised == QuantizeInvoked /\ err = "quantize_tensor"

QuantizeReturned == QuantizeInvoked /\ err # "quantize_tensor"

SupportedBackends == {"xnnpack", "ml_drift"}

Generators == {"GenerateXnnpackTfLite", "GenerateMlDriftTfLite"}

DistinctTargetNames(acts) ==
  \A i, j \in 1..Len(acts) : i # j => acts[i].target_name # acts[j].target_name

\* quantize_axis is set to an axis the 2-D tensor has
AxisSetAndValid(action) == action.quantize_axis \in {Some(0), Some(1)}

CalledFor(fn, i) == \E k \in 1..Len(calls) : calls[k].fn = fn /\ calls[k].idx = i

BaseKeys(action) == {action.target_name, action.target_name \o "_quantized_scale"}

AllKeys(action) == BaseKeys(action) \cup {action.target_name \o "_quantized_zp"}

(***************************************************************************)
(* Properties of quantize_by_actions                                       *)
(***************************************************************************)
\* C1: a single action whose quantize_axis is set to a valid axis index,
\* axis 0 included, yields exactly the keys {name, name_quantized_scale} in a
\* symmetric run and those plus name_quantized_zp in an asymmetric run.
C1_KeysOfQuantizedAction ==
  (QuantizeInvoked /\ Len(actions) = 1 /\ AxisSetAndValid(actions[1])) =>
    /\ QuantizeReturned
    /\ DOMAIN quantized_tensors =
         IF config.is_symmetric THEN BaseKeys(actions[1]) ELSE AllKeys(actions[1])

\* C2: an action whose quantize_axis is None is copied: the primitives are not
\* called for it, it cannot make the call fail, and (when no other action
\* shares its name) its only entry is name -> (tensor_value, False), for every
\* backend, symmetry flag and bit width.
C2_UnquantizedActionCopied ==
  QuantizeInvoked =>
    /\ (\A i \in 1..Len(actions) : actions[i].quantize_axis = None) => QuantizeReturned
    /\ \A i \in 1..Len(actions) :
         actions[i].quantize_axis = None =>
           /\ ~CalledFor("quantize_tensor", i)
           /\ ~CalledFor("update_to_uint4", i)
           /\ (QuantizeReturned /\ DistinctTargetNames(actions)) =>
                /\ AllKeys(actions[i]) \cap DOMAIN quantized_tensors = {actions[i].target_name}
                /\ quantized_tensors[actions[i].target_name] = <<actions[i].tensor_value, FALSE>>
           /\ (QuantizeReturned /\ Len(actions) = 1) =>
                DOMAIN quantized_tensors = {actions[i].target_name}

C2_Witness ==
  /\ QuantizeReturned
  /\ Len(actions) = 1
  /\ actions[1].quantize_axis = None
  /\ actions[1].quantize_bits = 4
  /\ config.backend = "unsupported"
  /\ ~config.is_symmetric
  /\ DOMAIN quantized_tensors = {actions[1].target_name}

\* C3: for distinct target names, the base entry of every action whose
\* quantize_axis is set needs packing iff its quantize_bits is 4, and no scale
\* or zero-point entry needs packing.
C3_PackIffFourBits ==
  (QuantizeReturned /\ DistinctTargetNames(actions)) =>
    \A i \in 1..Len(actions) :
      actions[i].quantize_axis # None =>
        /\ quantized_tensors[actions[i].target_name][2] = (actions[i].quantize_bits = 4)
        /\ \A k \in (AllKeys(actions[i]) \ {actions[i].target_name}) \cap DOMAIN quantized_tensors :
             quantized_tensors[k][2] = FALSE

\* C4: update_to_uint4 is applied to an action iff quantize_tensor was applied
\* to it, the run is asymmetric, its quantize_bits is 4 and the backend is
\* "xnnpack"; otherwise the entries stored are the values quantize_tensor
\* returned, and in the adapted case the scale stored is update_to_uint4's.
C4_Uint4OnlyForXnnpack ==
  QuantizeInvoked =>
    \A i \in 1..Len(actions) :
      /\ CalledFor("update_to_uint4", i) <=>
           /\ CalledFor("quantize_tensor", i)
           /\ ~config.is_symmetric
           /\ actions[i].quantize_bits = 4
           /\ config.backend = "xnnpack"
      /\ (QuantizeReturned /\ DistinctTargetNames(actions) /\ CalledFor("quantize_tensor", i)) =>
           LET a == actions[i]
               q == quantize_tensor(a.tensor_value, a.quantize_axis[1],
                                    config.is_symmetric, a.quantize_bits)
               stored(k) == quantized_tensors[k][1]
           IN  IF CalledFor("update_to_uint4", i)
               THEN /\ stored(a.target_name \o "_quantized_scale") =
                         update_to_uint4(q[1], q[2], q[3])[2]
                    /\ stored(a.target_name) = update_to_uint4(q[1], q[2], q[3])[1]
                    /\ stored(a.target_name \o "_quantized_zp") =
                         update_to_uint4(q[1], q[2], q[3])[3]
               ELSE /\ stored(a.target_name) = q[1]
                    /\ stored(a.target_name \o "_quantized_scale") = q[2]
                    /\ ~config.is_symmetric => stored(a.target_name \o "_quantized_zp") = q[3]

C4_Witness ==
  /\ QuantizeReturned
  /\ Len(actions) = 2
  /\ DistinctTargetNames(actions)
  /\ CalledFor("update_to_uint4", 1)
  /\ CalledFor("quantize_tensor", 2)
  /\ ~CalledFor("update_to_uint4", 2)

\* C8 as stated: with a backend outside {"xnnpack", "ml_drift"} and a non-empty
\* action list, quantize_by_actions fails and returns no mapping.
C8_UnsupportedBackendFailsFast ==
  (QuantizeInvoked /\ config.backend \notin SupportedBackends /\ actions # << >>) =>
    QuantizeRaised

\* C8 amended: quantize_by_actions does not look at the backend beyond the
\* "xnnpack" test, so with an unsupported tag it behaves as with "ml_drift":
\* the same mapping is returned, update_to_uint4 is never applied, and it fails
\* only when quantize_tensor rejects an action's axis.
C8_UnsupportedBackendAsMlDrift ==
  (QuantizeInvoked /\ config.backend \notin SupportedBackends) =>
    /\ QuantizeRaised <=>
         quantize_by_actions(actions, "ml_drift", config.is_symmetric).raised
    /\ QuantizeRaised =>
         \E i \in 1..Len(actions) :
           actions[i].quantize_axis # None /\ ~AxisSetAndValid(actions[i])
    /\ QuantizeReturned =>
         quantized_tensors =
           quantize_by_actions(actions, "ml_drift", config.is_symmetric).output_tensors
    /\ \A i \in 1..Len(actions) : ~CalledFor("update_to_uint4", i)

C8_Witness ==
  /\ QuantizeReturned
  /\ config.backend = "unsupported"
  /\ ~config.is_symmetric
  /\ \E i \in 1..Len(actions) :
       actions[i].quantize_bits = 4 /\ CalledFor("quantize_tensor", i)

\* C9: an action list in which two actions share a target_name is rejected
\* with an error; no mapping is returned for it.
C9_DuplicateNamesRejected ==
  (QuantizeInvoked /\ ~DistinctTargetNames(actions)) => QuantizeRaised

(***************************************************************************)
(* Properties of convert_checkpoint                                        *)
(***************************************************************************)
Finished == pc \in {"done", "raised"}

EarlierStageErrors ==
  {"create_ckpt_loader", "load_to_actions", "quantize_tensor", "create_writer",
   "write_variables"}

\* the order of the full path's stages for a backend
StageOrder(backend) ==
  <<"load_to_actions", "quantize_by_actions", "write_variables">> \o
    (IF backend = "xnnpack" THEN <<"GenerateXnnpackTfLite">>
     ELSE IF backend = "ml_drift" THEN <<"GenerateMlDriftTfLite">>
     ELSE << >>)

\* C5: with combine_file_only = true the loader, quantize_by_actions and the
\* writer are never invoked, whatever the backend tag; with backend
\* "unsupported" the run ends in the dispatch error with no loader, writer or
\* generator call made.
C5_CombineOnlySkipsStages ==
  config.combine_file_only =>
    /\ ~InTrace("load_to_actions")
    /\ ~InTrace("quantize_by_actions")
    /\ ~InTrace("write_variables")
    /\ err \notin EarlierStageErrors
    /\ actions = << >> /\ calls = << >> /\ written = None
    /\ (config.backend = "unsupported" /\ pc # "start") =>
         pc = "raised" /\ err = "Unsupported backend" /\ trace = << >>

C5_Witness ==
  /\ config.combine_file_only
  /\ config.backend = "unsupported"
  /\ pc = "raised"
  /\ err = "Unsupported backend"

\* C6: a generator entry point is invoked iff the backend tag is "xnnpack" or
\* "ml_drift" and every earlier stage completed; each backend invokes only its
\* own generator, once; any other tag ends the run in the 'Unsupported backend'
\* error with no generator invoked, on the full path only after the loader,
\* quantize_by_actions and the writer have completed.
C6_GeneratorDispatch ==
  /\ InTrace("GenerateXnnpackTfLite") => config.backend = "xnnpack"
  /\ InTrace("GenerateMlDriftTfLite") => config.backend = "ml_drift"
  /\ Occurrences("GenerateXnnpackTfLite") + Occurrences("GenerateMlDriftTfLite") <= 1
  /\ (\E g \in Generators : InTrace(g)) =>
       /\ Finished
       /\ err \notin EarlierStageErrors
       /\ trace = IF config.combine_file_only
                  THEN SubSeq(StageOrder(config.backend), 4, 4)
                  ELSE StageOrder(config.backend)
       /\ ~config.combine_file_only => written = Some(quantized_tensors)
  /\ Finished =>
       ((\E g \in Generators : InTrace(g)) <=>
          (config.backend \in SupportedBackends /\ err \notin EarlierStageErrors))
  /\ pc = "done" =>
       Occurrences("GenerateXnnpackTfLite") + Occurrences("GenerateMlDriftTfLite") = 1
  /\ (Finished /\ config.backend \notin SupportedBackends /\ err \notin EarlierStageErrors) =>
       err = "Unsupported backend"
  /\ err = "Unsupported backend" =>
       /\ pc = "raised"
       /\ config.backend \notin SupportedBackends
       /\ \A g \in Generators : ~InTrace(g)
       /\ ~config.combine_file_only =>
            /\ trace = <<"load_to_actions", "quantize_by_actions", "write_variables">>
            /\ written = Some(quantized_tensors)

C6_Witness ==
  /\ err = "Unsupported backend"
  /\ ~config.combine_file_only
  /\ written # None
  /\ Len(actions) = 2

\* C7: on the full path the stages are invoked at most once each and in the
\* order load_to_actions, quantize_by_actions, write_variables, generator; the
\* writer receives exactly the mapping quantize_by_actions returned; a failure
\* ends the run at the failing stage, with no later stage invoked and no retry.
C7_StagesInOrder ==
  ~config.combine_file_only =>
    /\ IsPrefix(trace, StageOrder(config.backend))
    /\ (pc = "raised") <=> (err # "")
    /\ pc = "loaded" => trace = SubSeq(StageOrder(config.backend), 1, 1)
    /\ pc = "quantized" => trace = SubSeq(StageOrder(config.backend), 1, 2)
    /\ pc = "written" => trace = SubSeq(StageOrder(config.backend), 1, 3)
    /\ pc = "done" => trace = StageOrder(config.backend) /\ Len(trace) = 4
    /\ InTrace("write_variables") =>
         /\ written = Some(quantized_tensors)
         /\ quantized_tensors =
              quantize_by_actions(actions, config.backend, config.is_symmetric).output_tensors
    /\ ~InTrace("write_variables") => written = None
    /\ pc = "raised" =>
         /\ ~ENABLED Next
         /\ err = "create_ckpt_loader" => trace = << >>
         /\ err = "load_to_actions" => trace = SubSeq(StageOrder(config.backend), 1, 1)
         /\ err = "quantize_tensor" => trace = SubSeq(StageOrder(config.backend), 1, 2)
         /\ err = "create_writer" => trace = SubSeq(StageOrder(config.backend), 1, 2)
         /\ err = "write_variables" => trace = SubSeq(StageOrder(config.backend), 1, 3)
         /\ err = "Unsupported backend" => trace = SubSeq(StageOrder(config.backend), 1, 3)
         /\ err \in Generators => Len(trace) = 4 /\ trace[4] = err

C7_Witness ==
  /\ ~config.combine_file_only
  /\ pc = "done"
  /\ Len(actions) = 2
  /\ DOMAIN quantized_tensors # {}
  /\ written = Some(quantized_tensors)

(***************************************************************************)
(* Properties of ConversionConfig.__init__                                 *)
(***************************************************************************)
\* os.makedirs(p, exist_ok=True) fails on file system f: p is '' or p or one of
\* its ancestors is a regular file
MakedirsFails(f, p) ==
  p = << >> \/ \E k \in 1..Len(p) : isfile(f, SubSeq(p, 1, k))

GivenTfliteFile == args.output_tflite_file \notin {None, Some(<< >>)}

\* C10 as stated: when output_dir is an existing regular file construction
\* raises before any other work (no directory created, file system unchanged,
\* no object); otherwise construction succeeds, output_dir is a directory
\* afterwards and output_tflite_file is <output_dir>/model.tflite when not given.
\* (Stated for a non-empty output_dir only, which the claim surely covers.)
C10_ConstructionAsStated ==
  [][(cpc = "init" /\ args.output_dir # << >>) =>
       IF isfile(fs, args.output_dir)
       THEN cpc' = "ValueError" /\ fs' = fs /\ made' = << >> /\ self' = None
       ELSE /\ cpc' = "ok"
            /\ self' # None
            /\ isdir(fs', args.output_dir)
            /\ args.output_tflite_file = None =>
                 self'[1].output_tflite_file = Append(args.output_dir, "model.tflite")]_vars

\* C10 amended: the first half as stated; when output_dir is not an existing
\* file, construction succeeds exactly when no os.makedirs call fails
\* (output_dir is not '' and not below a regular file, and likewise the parent
\* of a given output_tflite_file) and otherwise raises OSError with no object
\* produced; when it succeeds output_dir is a directory afterwards and
\* output_tflite_file is <output_dir>/model.tflite when none is given.
C10_ConstructionAmended ==
  [][cpc = "init" =>
       IF isfile(fs, args.output_dir)
       THEN cpc' = "ValueError" /\ fs' = fs /\ made' = << >> /\ self' = None
       ELSE /\ cpc' = "ok" <=>
                 /\ ~MakedirsFails(fs, args.output_dir)
                 /\ GivenTfliteFile =>
                      ~MakedirsFails(fs, dirname(args.output_tflite_file[1]))
            /\ cpc' # "ok" => cpc' = "OSError" /\ self' = None
            /\ cpc' = "ok" =>
                 /\ isdir(fs', args.output_dir)
                 /\ self' = Some([output_dir |-> args.output_dir,
                                  output_tflite_file |->
                                    IF GivenTfliteFile THEN args.output_tflite_file[1]
                                    ELSE Append(args.output_dir, "model.tflite")])
                 /\ GivenTfliteFile => isdir(fs', dirname(args.output_tflite_file[1]))
            /\ \A p \in DOMAIN fs :
                 fs'[p] = fs[p] \/ (fs[p] = "absent" /\ fs'[p] = "dir")]_vars

C10_Witness ==
  /\ cpc = "ValueError"
  /\ isfile(fs, args.output_dir)
  /\ args.output_tflite_file # None
  /\ made = << >>
  /\ self = None

====
